---- MODULE Spec2Model ----
(***************************************************************************)
(* Model of plugins/FirmwareUpdateChecker/FirmwareUpdateChecker.py: the    *)
(* extension object, the check jobs it starts, the messages those jobs     *)
(* show and the host signals that drive it.                                *)
(*                                                                         *)
(* Handlers of the extension run on the host's main thread, one at a time. *)
(* A job runs on a worker thread; its finished signal is emitted there and *)
(* is delivered to the connected slots by the main thread's event loop.    *)
(* checkFirmwareVersion is cut once, between start() (line 99) and         *)
(* finished.connect (line 100), so that the worker thread can run and      *)
(* complete the job in between.                                            *)
(***************************************************************************)
EXTENDS Integers, Sequences, FiniteSets

\* ---------------------------------------------------------------- bounds
NumNames == 2        \* distinct container definition names
NumMachineIds == 1   \* distinct machine ids

Names == 1..NumNames
MachineIds == 1..NumMachineIds

\* A cap on the jobs of one run: a job per name, and room for one too many.
MaxJobs == NumNames + 1

\* Python's None, for a job handle, a URL and the lookup object.
None == 0
NoLookups == [type |-> "NoneType"]

\* FirmwareUpdateCheckerMessage.STR_ACTION_DOWNLOAD and any other action id.
STR_ACTION_DOWNLOAD == "download"
Actions == {STR_ACTION_DOWNLOAD, "dismiss"}

\* The containers the host can add or a caller can pass: a GlobalStack or
\* another container, with the name of its definition.
Containers == [is_global_stack : BOOLEAN, name : Names]

\* The update URL machines.json can give for a machine: one URL per machine.
UpdateUrl(machine_id) == machine_id

\* The possible contents of resources/machines.json: some machine ids S, of
\* which those in W come with an update URL.
MachinesJson ==
    UNION {{[m \in S |-> IF m \in W THEN UpdateUrl(m) ELSE None] : W \in SUBSET S} :
           S \in SUBSET MachineIds}

VARIABLES
    automatic_update_check, \* preference "info/automatic_update_check" as __init__ read it
    container_added_slots,  \* slots connected to ContainerRegistry.containerAdded
    preferences,            \* registered preferences: a set of <<key, default>>
    machines_json,          \* the content of resources/machines.json
    _lookups,               \* self._lookups
    lookups_constructed,    \* how many FirmwareUpdateCheckerLookup were constructed
    _check_job,             \* self._check_job: None or a job (its index in jobs)
    _checked_printer_names, \* self._checked_printer_names
    jobs,                   \* every FirmwareUpdateCheckerJob created, in order
    event_queue,            \* finished signals posted to the main thread
    pc,                     \* main thread: "idle", or "line100" inside checkFirmwareVersion
    last                    \* the last signal or call: its inputs and what it
                            \* logged, opened and raised

vars == <<automatic_update_check, container_added_slots, preferences, machines_json,
          _lookups, lookups_constructed, _check_job, _checked_printer_names, jobs,
          event_queue, pc, last>>

\* ------------------------------------------------- collaborators (helpers)

\* Preferences.addPreference(key, default)
addPreference(prefs, key, default) ==
    {p \in prefs : p[1] # key} \cup {<<key, default>>}

\* getSettingsKeyForMachine(machine_id)
getSettingsKeyForMachine(machine_id) ==
    <<"info/latest_checked_firmware_for", machine_id>>

AutomaticUpdateCheckKey == <<"info/automatic_update_check", 0>>

\* FirmwareUpdateCheckerLookup(path): the table read from machines.json
FirmwareUpdateCheckerLookup(json) ==
    [type |-> "FirmwareUpdateCheckerLookup", redirect_user |-> json]

getMachineIds(lookups) == DOMAIN lookups.redirect_user

getRedirectUserFor(lookups, machine_id) ==
    IF machine_id \in DOMAIN lookups.redirect_user
    THEN lookups.redirect_user[machine_id]
    ELSE None

\* FirmwareUpdateCheckerJob(container, silent, lookups, callback)
FirmwareUpdateCheckerJob(container, silent, lookups) ==
    [container_name |-> container.name,
     silent         |-> silent,
     lookups        |-> lookups,
     callback       |-> "_onActionTriggered",
     status         |-> "created",   \* created, started, finished, cancelled
     finished_slots |-> {}]          \* slots connected to job.finished

\* A record of a signal or call: the operation, the inputs it read (the type
\* of an added container, the definition name and silent flag of a check, the
\* action and message.getMachineId() of a triggered action), the Logger.log
\* and QDesktopServices.openUrl calls it made, what it raised.
NoCall ==
    [op |-> "none", is_global_stack |-> FALSE, name |-> 0, silent |-> FALSE,
     machine_id |-> 0, action |-> "", log |-> <<>>, opened_urls |-> <<>>,
     raised |-> "none"]

\* ------------------------------------------------------------------ Init

\* __init__, lines 37-39 with the test of the preference lost
ContainerAddedSlots_Always(enabled) == {"_onContainerAdded"}

\* __init__, lines 37-39: the slots connected to containerAdded
ContainerAddedSlots(enabled) ==
    IF enabled THEN {"_onContainerAdded"} ELSE {}

\* __init__, lines 32-46, with the preference as the user left it.
Init ==
    /\ automatic_update_check \in BOOLEAN
    /\ container_added_slots = ContainerAddedSlots(automatic_update_check)
    /\ preferences = addPreference({}, AutomaticUpdateCheckKey, "True")
    /\ machines_json \in MachinesJson
    /\ _lookups = NoLookups
    /\ lookups_constructed = 0
    /\ _check_job = None
    /\ _checked_printer_names = {}
    /\ jobs = <<>>
    /\ event_queue = <<>>
    /\ pc = "idle"
    /\ last = NoCall

\* -------------------------------------------------------- _onPluginsLoaded

RECURSIVE addMachinePreferences(_, _)
\* lines 78-79: one addPreference per machine id of the lookup table
addMachinePreferences(prefs, machine_ids) ==
    IF machine_ids = {} THEN prefs
    ELSE LET machine_id == CHOOSE m \in machine_ids : TRUE
         IN  addMachinePreferences(
                 addPreference(prefs, getSettingsKeyForMachine(machine_id), ""),
                 machine_ids \ {machine_id})

\* _onPluginsLoaded with the early return of lines 70-71 lost.
onPluginsLoaded_NoGuard(lookups, prefs, constructed) ==
    LET new == FirmwareUpdateCheckerLookup(machines_json)
    IN  [lookups     |-> new,
         prefs       |-> addMachinePreferences(prefs, getMachineIds(new)),
         constructed |-> constructed + 1]

\* _onPluginsLoaded registering a preference for every machine id there is,
\* in the lookup table or not.
onPluginsLoaded_AllIds(lookups, prefs, constructed) ==
    IF lookups # NoLookups
    THEN [lookups |-> lookups, prefs |-> prefs, constructed |-> constructed]
    ELSE LET new == FirmwareUpdateCheckerLookup(machines_json)
         IN  [lookups     |-> new,
              prefs       |-> addMachinePreferences(prefs, MachineIds),
              constructed |-> constructed + 1]

\* _onPluginsLoaded, lines 69-79, as a function of what it reads and writes:
\* self._lookups, the host preferences and the count of lookups constructed.
onPluginsLoaded(lookups, prefs, constructed) ==
    IF lookups # NoLookups
    THEN [lookups |-> lookups, prefs |-> prefs, constructed |-> constructed]
    ELSE LET new == FirmwareUpdateCheckerLookup(machines_json)
         IN  [lookups     |-> new,
              prefs       |-> addMachinePreferences(prefs, getMachineIds(new)),
              constructed |-> constructed + 1]

\* The pluginsLoaded signal arrives: _onPluginsLoaded runs on the main thread.
_onPluginsLoaded ==
    /\ pc = "idle"
    /\ LET r == onPluginsLoaded(_lookups, preferences, lookups_constructed)
       IN  /\ _lookups' = r.lookups
           /\ preferences' = r.prefs
           /\ lookups_constructed' = r.constructed
    /\ last' = [NoCall EXCEPT !.op = "_onPluginsLoaded"]
    /\ UNCHANGED <<automatic_update_check, container_added_slots, machines_json,
                   _check_job, _checked_printer_names, jobs, event_queue, pc>>

\* ----------------------------------------------------- checkFirmwareVersion

\* lines 88-89 lost: the check works with self._lookups as it finds it
lookupsForCheck_NoLoad(lookups, prefs, constructed) ==
    [lookups |-> lookups, prefs |-> prefs, constructed |-> constructed]

\* lines 88-89: the lookups a check works with
lookupsForCheck(lookups, prefs, constructed) ==
    IF lookups = NoLookups
    THEN onPluginsLoaded(lookups, prefs, constructed)
    ELSE [lookups |-> lookups, prefs |-> prefs, constructed |-> constructed]

\* line 92 with the membership test lost
alreadyChecked_Never(container_name, checked) == FALSE

\* line 92: container_name in self._checked_printer_names
alreadyChecked(container_name, checked) == container_name \in checked

\* Job.start(): the job is handed to the job queue
start(job) == [job EXCEPT !.status = "started"]

\* lines 96-99 cancelling the job whose handle is replaced
createAndStart_CancelOld(js, handle, container, silent, lookups) ==
    LET old == IF handle # None /\ js[handle].status = "started"
               THEN [js EXCEPT ![handle].status = "cancelled"]
               ELSE js
    IN  Append(old, start(FirmwareUpdateCheckerJob(container, silent, lookups)))

\* lines 96-99: the jobs after a new one is created and started; handle is
\* self._check_job before the call
createAndStart(js, handle, container, silent, lookups) ==
    Append(js, start(FirmwareUpdateCheckerJob(container, silent, lookups)))

\* checkFirmwareVersion recording the name (line 94) only for a check that is
\* not silent, so that a check made at startup does not count.
checkFirmwareVersion_body_SilentNotRecorded(container, silent, call) ==
    /\ pc = "idle"
    /\ LET r == lookupsForCheck(_lookups, preferences, lookups_constructed)
           container_name == container.name
       IN  /\ _lookups' = r.lookups
           /\ preferences' = r.prefs
           /\ lookups_constructed' = r.constructed
           /\ IF alreadyChecked(container_name, _checked_printer_names)
              THEN UNCHANGED <<_checked_printer_names, _check_job, jobs, pc>>
              ELSE /\ Len(jobs) < MaxJobs
                   /\ _checked_printer_names' =
                          IF silent THEN _checked_printer_names
                          ELSE _checked_printer_names \cup {container_name}
                   /\ jobs' = createAndStart(jobs, _check_job, container, silent,
                                             r.lookups)
                   /\ _check_job' = Len(jobs) + 1
                   /\ pc' = "line100"
    /\ last' = call
    /\ UNCHANGED <<automatic_update_check, container_added_slots, machines_json,
                   event_queue>>

\* checkFirmwareVersion(container, silent), lines 88-99: up to and including
\* start(). The record of the invocation is `call`.
checkFirmwareVersion_body(container, silent, call) ==
    /\ pc = "idle"
    /\ LET r == lookupsForCheck(_lookups, preferences, lookups_constructed)
           container_name == container.name
       IN  /\ _lookups' = r.lookups
           /\ preferences' = r.prefs
           /\ lookups_constructed' = r.constructed
           /\ IF alreadyChecked(container_name, _checked_printer_names)
              THEN UNCHANGED <<_checked_printer_names, _check_job, jobs, pc>>
              ELSE /\ Len(jobs) < MaxJobs
                   /\ _checked_printer_names' =
                          _checked_printer_names \cup {container_name}
                   /\ jobs' = createAndStart(jobs, _check_job, container, silent,
                                             r.lookups)
                   /\ _check_job' = Len(jobs) + 1
                   /\ pc' = "line100"
    /\ last' = call
    /\ UNCHANGED <<automatic_update_check, container_added_slots, machines_json,
                   event_queue>>

\* A direct call of checkFirmwareVersion(container, silent).
checkFirmwareVersion(container, silent) ==
    checkFirmwareVersion_body(container, silent,
        [NoCall EXCEPT !.op = "checkFirmwareVersion",
                       !.name = container.name, !.silent = silent])

\* line 100: self._check_job.finished.connect(self._onJobFinished)
connectFinished ==
    /\ pc = "line100"
    /\ jobs' = [jobs EXCEPT ![_check_job].finished_slots = @ \cup {"_onJobFinished"}]
    /\ pc' = "idle"
    /\ UNCHANGED <<automatic_update_check, container_added_slots, preferences,
                   machines_json, _lookups, lookups_constructed, _check_job,
                   _checked_printer_names, event_queue, last>>

\* -------------------------------------------------------- _onContainerAdded

\* line 63 with the isinstance test lost
reactsTo_Any(container) == TRUE

\* line 63: isinstance(container, GlobalStack)
reactsTo(container) == container.is_global_stack

\* line 64: the silent argument of the check of an added container
silentOnContainerAdded == TRUE

\* _onContainerAdded(container), lines 61-64.
_onContainerAdded(container, call) ==
    IF reactsTo(container)
    THEN checkFirmwareVersion_body(container, silentOnContainerAdded,
                                   [call EXCEPT !.name = container.name,
                                                !.silent = silentOnContainerAdded])
    ELSE /\ pc = "idle"
         /\ last' = call
         /\ UNCHANGED <<automatic_update_check, container_added_slots, preferences,
                        machines_json, _lookups, lookups_constructed, _check_job,
                        _checked_printer_names, jobs, event_queue, pc>>

\* ContainerRegistry.containerAdded is emitted for a container: the slots
\* connected to it run; with none connected nothing does.
containerAdded(container) ==
    LET call == [NoCall EXCEPT !.op = "containerAdded",
                               !.is_global_stack = container.is_global_stack]
    IN  IF "_onContainerAdded" \in container_added_slots
        THEN _onContainerAdded(container, call)
        ELSE /\ pc = "idle"
             /\ last' = call
             /\ UNCHANGED <<automatic_update_check, container_added_slots,
                            preferences, machines_json, _lookups,
                            lookups_constructed, _check_job,
                            _checked_printer_names, jobs, event_queue, pc>>

\* --------------------------------------------------------------- the jobs

\* A worker thread runs a started job to its end (on its way the job may show
\* a message offering new firmware); its finished signal is then emitted,
\* which posts the call of its slots to the main thread.
jobRun(j) ==
    /\ j \in DOMAIN jobs
    /\ jobs[j].status = "started"
    /\ jobs' = [jobs EXCEPT ![j].status = "finished"]
    /\ event_queue' = Append(event_queue, j)
    /\ UNCHANGED <<automatic_update_check, container_added_slots, preferences,
                   machines_json, _lookups, lookups_constructed, _check_job,
                   _checked_printer_names, pc, last>>

\* _onJobFinished with the assignment of line 67 lost
onJobFinished_Keep(handle, j) == handle

\* _onJobFinished, lines 66-67: the new value of self._check_job, from its
\* old value and the job whose signal arrived
onJobFinished(handle, j) == None

\* The main thread's event loop delivers the oldest finished signal to the
\* slots connected to it at that moment.
deliverFinished ==
    /\ pc = "idle"
    /\ event_queue # <<>>
    /\ LET j == Head(event_queue)
       IN  /\ _check_job' = IF "_onJobFinished" \in jobs[j].finished_slots
                            THEN onJobFinished(_check_job, j)
                            ELSE _check_job
           /\ last' = [NoCall EXCEPT !.op = "_onJobFinished"]
    /\ event_queue' = Tail(event_queue)
    /\ UNCHANGED <<automatic_update_check, container_added_slots, preferences,
                   machines_json, _lookups, lookups_constructed,
                   _checked_printer_names, jobs, pc>>

\* ------------------------------------------------------- _onActionTriggered

\* line 50 with the comparison lost
isDownload_Any(action) == TRUE

\* line 50: action == FirmwareUpdateCheckerMessage.STR_ACTION_DOWNLOAD
isDownload(action) == action = STR_ACTION_DOWNLOAD

\* _onActionTriggered forgetting the checked names when a download fails, so
\* that the next check of the printer tries again.
onActionTriggered_Retry(lookups, check_job, checked, machine_id, action, ok) ==
    LET out == [lookups |-> lookups, check_job |-> check_job, checked |-> checked,
                log |-> <<>>, opened_urls |-> <<>>, raised |-> "none"]
    IN  IF ~isDownload(action) THEN out
        ELSE IF lookups = NoLookups
        THEN [out EXCEPT !.raised = "AttributeError"]
        ELSE LET download_url == getRedirectUserFor(lookups, machine_id)
             IN  IF download_url = None
                 THEN [out EXCEPT !.checked = {},
                                  !.log = <<<<"e", "Can't find URL for", machine_id>>>>]
                 ELSE IF ok
                 THEN [out EXCEPT
                          !.opened_urls = <<download_url>>,
                          !.log = <<<<"i", "Redirected browser to", download_url>>>>]
                 ELSE [out EXCEPT
                          !.checked = {},
                          !.opened_urls = <<download_url>>,
                          !.log = <<<<"e", "Can't reach URL", download_url>>>>]

\* _onActionTriggered(message, action), lines 49-59, as a function to the
\* attributes of self afterwards, the log and openUrl calls made and the
\* exception raised. machine_id is message.getMachineId(); ok is what
\* QDesktopServices.openUrl returns if it is called.
onActionTriggered(lookups, check_job, checked, machine_id, action, ok) ==
    LET out == [lookups |-> lookups, check_job |-> check_job, checked |-> checked,
                log |-> <<>>, opened_urls |-> <<>>, raised |-> "none"]
    IN  IF ~isDownload(action) THEN out
        ELSE IF lookups = NoLookups
        THEN \* line 52: None has no getRedirectUserFor
             [out EXCEPT !.raised = "AttributeError"]
        ELSE LET download_url == getRedirectUserFor(lookups, machine_id)
             IN  IF download_url = None
                 THEN [out EXCEPT !.log = <<<<"e", "Can't find URL for", machine_id>>>>]
                 ELSE IF ok
                 THEN [out EXCEPT
                          !.opened_urls = <<download_url>>,
                          !.log = <<<<"i", "Redirected browser to", download_url>>>>]
                 ELSE [out EXCEPT
                          !.opened_urls = <<download_url>>,
                          !.log = <<<<"e", "Can't reach URL", download_url>>>>]

\* The user picks an action of a message for machine_id that some job has
\* shown: the message calls the callback that job was given, on the main
\* thread.
_onActionTriggered(machine_id, action, ok) ==
    /\ pc = "idle"
    /\ \E j \in DOMAIN jobs : /\ jobs[j].status \in {"started", "finished"}
                              /\ jobs[j].callback = "_onActionTriggered"
    /\ LET r == onActionTriggered(_lookups, _check_job, _checked_printer_names,
                                  machine_id, action, ok)
       IN  /\ _lookups' = r.lookups
           /\ _check_job' = r.check_job
           /\ _checked_printer_names' = r.checked
           /\ last' = [NoCall EXCEPT !.op = "_onActionTriggered",
                                     !.machine_id = IF isDownload(action)
                                                    THEN machine_id ELSE 0,
                                     !.action = action,
                                     !.log = r.log, !.opened_urls = r.opened_urls,
                                     !.raised = r.raised]
    /\ UNCHANGED <<automatic_update_check, container_added_slots, preferences,
                   machines_json, lookups_constructed, jobs, event_queue, pc>>

\* ------------------------------------------------------------------ Next

\* Definition names are opaque to the extension, which only compares them:
\* the names in use are numbered in the order of their first check, so the
\* containers that can arrive carry a checked name or the next unused one.
ArrivingContainers ==
    {c \in Containers : c.name <= Cardinality(_checked_printer_names) + 1}

\* The containers a caller passes to checkFirmwareVersion: machine stacks.
GlobalStacks == {c \in ArrivingContainers : c.is_global_stack}

Next ==
    \/ _onPluginsLoaded
    \/ \E container \in GlobalStacks, silent \in BOOLEAN :
           checkFirmwareVersion(container, silent)
    \/ connectFinished
    \/ \E container \in ArrivingContainers : containerAdded(container)
    \/ \E j \in 1..MaxJobs : jobRun(j)
    \/ deliverFinished
    \/ \E machine_id \in MachineIds, action \in Actions, ok \in BOOLEAN :
           _onActionTriggered(machine_id, action, ok)

Spec == Init /\ [][Next]_vars

\* The main thread goes on: a handler it has entered runs to its end, and
\* its event loop gets to every call posted to it.
FairSpec ==
    /\ Spec
    /\ WF_vars(connectFinished)
    /\ WF_vars(deliverFinished)

\* ================================================================ claims

\* The attributes of self that hold the extension's state.
self_state == <<_lookups, _check_job, _checked_printer_names>>

\* The step is a check of container: a direct call or an added container that
\* _onContainerAdded hands to checkFirmwareVersion. (The record of the call
\* is looked at first: it tells most other steps apart at once.)
IsCheckOf(container) ==
    /\ last'.op \in {"checkFirmwareVersion", "containerAdded"}
    /\ last'.name = container.name
    /\ \/ \E silent \in BOOLEAN : checkFirmwareVersion(container, silent)
       \/ /\ containerAdded(container)
          /\ "_onContainerAdded" \in container_added_slots
          /\ container.is_global_stack

\* The step is the containerAdded signal for container.
IsContainerAdded(container) ==
    /\ last'.op = "containerAdded"
    /\ last'.is_global_stack = container.is_global_stack
    /\ containerAdded(container)

\* The step is the call _onActionTriggered(message, action) for a message of
\* machine_id, with openUrl returning ok if called.
IsActionTriggered(machine_id, action, ok) ==
    /\ last'.op = "_onActionTriggered"
    /\ last'.action = action
    /\ _onActionTriggered(machine_id, action, ok)

\* The step created a job for name, started it and left the other jobs alone.
StartsOneJobFor(name) ==
    /\ Len(jobs') = Len(jobs) + 1
    /\ SubSeq(jobs', 1, Len(jobs)) = jobs
    /\ jobs'[Len(jobs')].container_name = name
    /\ jobs'[Len(jobs')].status = "started"

\* C1: in every run no two jobs are created for the same container definition
\* name, and a check (direct or through _onContainerAdded) of a name that is
\* already in _checked_printer_names returns with the jobs as they were.
C1_AtMostOneJobPerName ==
    [][ /\ \A i, j \in DOMAIN jobs' :
               jobs'[i].container_name = jobs'[j].container_name => i = j
        /\ \A c \in Containers :
               (IsCheckOf(c) /\ c.name \in _checked_printer_names)
                   => jobs' = jobs /\ pc' = "idle" ]_vars

\* C1 witness: a second check of the first name has returned; the newest job
\* is the one of the other name.
C1_Witness ==
    /\ last.op \in {"checkFirmwareVersion", "containerAdded"}
    /\ Len(jobs) = 2
    /\ last.name = jobs[1].container_name
    /\ pc = "idle"

\* C2: FirmwareUpdateCheckerLookup is constructed at most once, and an
\* _onPluginsLoaded call made when _lookups is not None leaves _lookups and
\* the registered preferences as they were.
C2_LookupLoadedOnce ==
    [][ /\ lookups_constructed' <= 1
        /\ (last'.op = "_onPluginsLoaded" /\ _onPluginsLoaded /\ _lookups # NoLookups)
               => UNCHANGED <<_lookups, preferences, lookups_constructed>> ]_vars

\* C2 witness: pluginsLoaded arrived after a check had already loaded the
\* lookups and created a job.
C2_Witness ==
    /\ last.op = "_onPluginsLoaded"
    /\ lookups_constructed = 1
    /\ jobs # <<>>

\* C3: a check of a name not yet in the checked-set creates and starts
\* exactly one job, and no step of the extension cancels, stops or drops a
\* started job: a started job stays started until its own run finishes it.
C3_OneJobPerCheckNeverCancelled ==
    [][ /\ \A c \in Containers :
               (IsCheckOf(c) /\ c.name \notin _checked_printer_names)
                   => StartsOneJobFor(c.name)
        /\ \A j \in DOMAIN jobs :
               /\ j \in DOMAIN jobs'
               /\ jobs[j].status = "started"
                      => \/ jobs'[j].status = "started"
                         \/ jobs'[j].status = "finished" /\ jobRun(j)
               /\ jobs[j].status = "finished" => jobs'[j].status = "finished" ]_vars

\* C3 witness: a second check has started its job while the job of the first
\* is still running.
C3_Witness ==
    /\ Len(jobs) = 2
    /\ jobs[1].status = "started"
    /\ jobs[2].status = "started"
    /\ _check_job = 2

\* C4: when _onActionTriggered handles the download action and the lookup
\* gives no URL or openUrl returns False, it logs exactly one error, leaves
\* the extension's state and the jobs unchanged, calls openUrl at most once
\* and raises nothing.
C4_FailedDownloadOnlyLogged ==
    [][ \A m \in MachineIds, ok \in BOOLEAN :
            ( /\ IsActionTriggered(m, STR_ACTION_DOWNLOAD, ok)
              /\ _lookups # NoLookups
              /\ (getRedirectUserFor(_lookups, m) = None \/ ~ok) )
                => /\ Len(last'.log) = 1
                   /\ last'.log[1][1] = "e"
                   /\ Len(last'.opened_urls) <= 1
                   /\ last'.raised = "none"
                   /\ UNCHANGED <<self_state, jobs, event_queue, pc>> ]_vars

\* C4 witness: the download action was handled, the URL was known and
\* openUrl returned False.
C4_Witness ==
    /\ last.op = "_onActionTriggered"
    /\ last.action = STR_ACTION_DOWNLOAD
    /\ last.opened_urls # <<>>
    /\ last.log[1][1] = "e"

\* C5: once the lookups are loaded, the preferences hold, for every machine
\* id of the lookup table, exactly one entry under
\* getSettingsKeyForMachine(id), with the empty string as default, and no
\* such entry for any other machine id.
C5_OnePreferencePerMachine ==
    _lookups # NoLookups =>
        \A m \in MachineIds :
            LET entries == {p \in preferences : p[1] = getSettingsKeyForMachine(m)}
            IN  IF m \in getMachineIds(_lookups)
                THEN entries = {<<getSettingsKeyForMachine(m), "">>}
                ELSE entries = {}

\* C5 witness: _onPluginsLoaded has loaded a lookup table that lists a machine.
C5_Witness ==
    /\ last.op = "_onPluginsLoaded"
    /\ _lookups # NoLookups
    /\ getMachineIds(_lookups) # {}

\* C6: if "info/automatic_update_check" was false at construction, a
\* containerAdded event changes neither the jobs nor the extension's state;
\* if it was true, every added GlobalStack is checked: its name is in the
\* checked-set afterwards, and a job was started for it if it was not.
C6_AutomaticCheckOnlyIfEnabled ==
    [][ \A c \in Containers :
            IsContainerAdded(c) =>
                IF automatic_update_check
                THEN c.is_global_stack =>
                         /\ c.name \in _checked_printer_names'
                         /\ c.name \notin _checked_printer_names
                                => StartsOneJobFor(c.name)
                ELSE UNCHANGED <<self_state, jobs, event_queue, pc, preferences>> ]_vars

\* C6 witness: with the preference false a GlobalStack was added after a
\* direct check, and no job was started for it.
C6_Witness ==
    /\ ~automatic_update_check
    /\ last.op = "containerAdded"
    /\ last.is_global_stack
    /\ Len(jobs) = 1
    /\ Cardinality(_checked_printer_names) = 1

\* C7: _onContainerAdded leaves the extension's state and the jobs unchanged
\* for a container that is not a GlobalStack, and a job it starts for a
\* GlobalStack is a silent job for that container's definition name.
C7_ContainerAddedOnlyGlobalStackSilent ==
    [][ \A c \in Containers :
            IsContainerAdded(c) =>
                /\ ~c.is_global_stack
                       => UNCHANGED <<self_state, jobs, event_queue, pc, preferences>>
                /\ (c.is_global_stack /\ jobs' # jobs)
                       => /\ StartsOneJobFor(c.name)
                          /\ jobs'[Len(jobs')].silent = TRUE ]_vars

\* C7 witness: with the handler connected, a container that is not a
\* GlobalStack was added after an added GlobalStack got its silent job.
C7_Witness ==
    /\ automatic_update_check
    /\ last.op = "containerAdded"
    /\ ~last.is_global_stack
    /\ Len(jobs) = 1
    /\ jobs[1].silent

\* C8: _onActionTriggered calls openUrl only for the download action and a
\* machine id whose URL the lookup knows, and then once, with that URL; for
\* any other action it opens nothing, logs nothing, raises nothing and
\* changes no state.
C8_BrowserOnlyOnDownloadWithUrl ==
    [][ \A m \in MachineIds, a \in Actions, ok \in BOOLEAN :
            (IsActionTriggered(m, a, ok) /\ _lookups # NoLookups) =>
                /\ last'.opened_urls # <<>>
                       => /\ a = STR_ACTION_DOWNLOAD
                          /\ getRedirectUserFor(_lookups, last'.machine_id) # None
                          /\ last'.opened_urls =
                                 <<getRedirectUserFor(_lookups, last'.machine_id)>>
                /\ a # STR_ACTION_DOWNLOAD
                       => /\ last'.opened_urls = <<>>
                          /\ last'.log = <<>>
                          /\ last'.raised = "none"
                          /\ UNCHANGED <<self_state, jobs, event_queue, pc,
                                         preferences>> ]_vars

\* C8 witness: the download action opened the browser at the machine's URL.
C8_Witness ==
    /\ last.op = "_onActionTriggered"
    /\ last.action = STR_ACTION_DOWNLOAD
    /\ last.opened_urls = <<UpdateUrl(last.machine_id)>>
    /\ last.log[1][1] = "i"

\* C9: every job was created with a lookups object that is not None, the
\* lookups are loaded whenever a job (and so a message with the callback)
\* exists, and no _onActionTriggered call failed on a None _lookups.
C9_LookupsAvailableWhereUsed ==
    /\ \A j \in DOMAIN jobs : jobs[j].lookups # NoLookups
    /\ jobs # <<>> => _lookups # NoLookups
    /\ last.op = "_onActionTriggered" => last.raised = "none"

\* C9 witness: the download action of a message was handled, with the
\* lookups loaded once, by the check or by pluginsLoaded.
C9_Witness ==
    /\ last.op = "_onActionTriggered"
    /\ last.action = STR_ACTION_DOWNLOAD
    /\ last.log # <<>>
    /\ lookups_constructed = 1

\* C10: whenever a started job has not yet emitted finished, _check_job is
\* not None.
C10_CheckJobTracksRunningJob ==
    (\E j \in DOMAIN jobs : jobs[j].status = "started") => _check_job # None

\* Every job created so far has emitted finished.
AllJobsFinished == \A j \in DOMAIN jobs : jobs[j].status = "finished"

\* C11: from any state in which every started job has finished, _check_job
\* eventually is None, also when a job finished between start() and
\* finished.connect.
C11_HandleEventuallyReleased == AllJobsFinished ~> (_check_job = None)

\* C11 witness: the main thread is between start() (line 99) and
\* finished.connect (line 100), the job it started has already finished on
\* its worker thread, and so has every other job; the handle is still held.
C11_Witness ==
    /\ pc = "line100"
    /\ Len(jobs) = 2
    /\ AllJobsFinished
    /\ _check_job = 2

\* C12: no step removes a name from _checked_printer_names; the name of
\* every job, from the moment the job is started and whatever becomes of it,
\* is in the set; and a check of a name in the set, silent or not, leaves
\* the jobs as they were.
C12_CheckedNamesOnlyGrow ==
    [][ /\ _checked_printer_names \subseteq _checked_printer_names'
        /\ \A j \in DOMAIN jobs' :
               jobs'[j].container_name \in _checked_printer_names'
        /\ \A c \in Containers, silent \in BOOLEAN :
               ( /\ c.name \in _checked_printer_names
                 /\ last'.op = "checkFirmwareVersion"
                 /\ last'.name = c.name
                 /\ last'.silent = silent
                 /\ checkFirmwareVersion(c, silent) )
                   => /\ jobs' = jobs
                      /\ _check_job' = _check_job
                      /\ _checked_printer_names' = _checked_printer_names ]_vars

\* C12 witness: the first check of a name was silent and its job has
\* finished; a later check of that name that is not silent has returned and
\* there is still that one job.
C12_Witness ==
    /\ last.op = "checkFirmwareVersion"
    /\ ~last.silent
    /\ pc = "idle"
    /\ Len(jobs) = 1
    /\ jobs[1].container_name = last.name
    /\ jobs[1].silent
    /\ jobs[1].status = "finished"
    /\ event_queue = <<>>
    /\ _check_job = None

====
